---------------------------- MODULE Spec2Model ----------------------------
(***************************************************************************)
(* State-machine model of the HIPAA gateway: the session store             *)
(* (services/session_store.py), the de-identification / re-identification  *)
(* service (services/pii_service.py), the reinsertion service              *)
(* (services/reinsertion_service.py), the completion service               *)
(* (services/llm_service.py) and the /chat handler (main.py).              *)
(*                                                                         *)
(* Text is a sequence of atoms.  An atom is a one-character string, an     *)
(* entity label ("AGE", "PERSON") standing for the characters of that      *)
(* label, a uuid suffix ("h0", ...) standing for its eight hex digits, or  *)
(* a word of a prompt.  A Python dict is a sequence of <<key, value>>      *)
(* pairs with distinct keys, in insertion order.  Time is counted in days. *)
(***************************************************************************)
EXTENDS Integers, Sequences, FiniteSets, TLC

(***************************************************************************)
(* Bounds of the model.                                                    *)
(***************************************************************************)
NumHex == 2          \* how many distinct uuid suffixes the model draws from
MaxLen == 4          \* longest prompt of the tokenizer specification
MaxNow == 2          \* the clock stops advancing here
MaxCalls == 1        \* chat requests one thread makes
MaxSeq == 2          \* chat requests of the sequential specification
MaxVault == 3        \* calls of the session-store specification
MaxSpans == 2        \* most results the analyzer returns for one prompt
MaxFrags == 3        \* most fragments a completion is assembled from
MaxApi == 1          \* direct session-store calls made in all

(***************************************************************************)
(* Python values.                                                          *)
(***************************************************************************)
None == <<>>         \* Optional[int]: None is <<>>, an int n is <<n>>

Min(a, b) == IF a < b THEN a ELSE b

\* s[a:b] of Python, 0-based and half-open, clamped to the string
Slice(s, a, b) == SubSeq(s, Min(a, Len(s)) + 1, Min(b, Len(s)))

\* needle in s, at 1-based position i
MatchAt(s, needle, i) ==
    /\ i + Len(needle) - 1 <= Len(s)
    /\ \A j \in 1..Len(needle) : s[i + j - 1] = needle[j]

\* "needle in s" of Python
Contains(s, needle) == \E i \in 1..(Len(s) + 1) : MatchAt(s, needle, i)

\* str.replace(old, new): every non-overlapping occurrence, left to right
\* (old is never empty: dict keys here are placeholders)
RECURSIVE ReplaceFrom(_, _, _, _)
ReplaceFrom(s, old, new, i) ==
    IF i > Len(s) THEN <<>>
    ELSE IF MatchAt(s, old, i)
         THEN new \o ReplaceFrom(s, old, new, i + Len(old))
         ELSE <<s[i]>> \o ReplaceFrom(s, old, new, i + 1)

\* a replace of the first occurrence only (str.replace(old, new, 1)): what
\* Replace must not be
RECURSIVE ReplaceFirstFrom(_, _, _, _)
ReplaceFirstFrom(s, old, new, i) ==
    IF i > Len(s) THEN <<>>
    ELSE IF MatchAt(s, old, i)
         THEN new \o SubSeq(s, i + Len(old), Len(s))
         ELSE <<s[i]>> \o ReplaceFirstFrom(s, old, new, i + 1)

ReplaceFirst(s, old, new) == ReplaceFirstFrom(s, old, new, 1)

Replace(s, old, new) == ReplaceFrom(s, old, new, 1)

(***************************************************************************)
(* dict: <<key, value>> pairs in insertion order.                          *)
(***************************************************************************)
Keys(d) == {d[i][1] : i \in 1..Len(d)}
Entries(d) == {d[i] : i \in 1..Len(d)}
HasKey(d, k) == \E i \in 1..Len(d) : d[i][1] = k

\* d[k] = v : an existing key keeps its position, a new key goes last
DictSet(d, k, v) ==
    IF HasKey(d, k)
    THEN [i \in 1..Len(d) |-> IF d[i][1] = k THEN <<k, v>> ELSE d[i]]
    ELSE Append(d, <<k, v>>)

\* d.update(e)
RECURSIVE DictUpdateFrom(_, _, _)
DictUpdateFrom(d, e, i) ==
    IF i > Len(e) THEN d
    ELSE DictUpdateFrom(DictSet(d, e[i][1], e[i][2]), e, i + 1)

DictUpdate(d, e) == DictUpdateFrom(d, e, 1)


(***************************************************************************)
(* pii_service.py: the redaction filter and the rewrite of deidentify.     *)
(* A detector result is [entity_type, start, end, score], 0-based and      *)
(* half-open like Presidio's RecognizerResult.                             *)
(***************************************************************************)
Digits == <<"0", "1", "2", "3", "4", "5", "6", "7", "8", "9">>
IsDigit(c) == \E i \in 1..10 : Digits[i] = c
DigitVal(c) == (CHOOSE i \in 1..10 : Digits[i] = c) - 1

\* int(str) for a run of decimal digits
RECURSIVE ParseInt(_)
ParseInt(ds) == IF Len(ds) = 0 THEN 0
           ELSE 10 * ParseInt(SubSeq(ds, 1, Len(ds) - 1)) + DigitVal(ds[Len(ds)])

\* re.findall(r'\d{2,3}', text): the matches, left to right, greedy
RECURSIVE FindallFrom(_, _)
FindallFrom(text, i) ==
    IF i + 1 > Len(text) THEN <<>>
    ELSE IF IsDigit(text[i]) /\ IsDigit(text[i + 1])
         THEN LET n == IF i + 2 <= Len(text) /\ IsDigit(text[i + 2]) THEN 3 ELSE 2
              IN  <<SubSeq(text, i, i + n - 1)>> \o FindallFrom(text, i + n)
         ELSE FindallFrom(text, i + 1)

extract_age_from_text(text) ==
    LET numbers == FindallFrom(text, 1)
    IN  IF Len(numbers) > 0
        THEN LET age == ParseInt(numbers[1])
             IN  IF 0 <= age /\ age <= 120 THEN <<age>> ELSE None
        ELSE None

\* a filter that redacts the age 89 too: what Accepted must not be
AcceptedFrom89(text, result) ==
    IF result.entity_type = "AGE"
    THEN LET age == extract_age_from_text(Slice(text, result.start, result.end))
         IN  IF age # None
             THEN age[1] >= 89
             ELSE TRUE
    ELSE TRUE

\* the body of the filter loop: is this result appended to filtered_results
Accepted(text, result) ==
    IF result.entity_type = "AGE"
    THEN LET age == extract_age_from_text(Slice(text, result.start, result.end))
         IN  IF age # None
             THEN age[1] > 89
             ELSE TRUE
    ELSE TRUE

RECURSIVE FilterFrom(_, _, _)
FilterFrom(text, results, i) ==
    IF i > Len(results) THEN <<>>
    ELSE (IF Accepted(text, results[i]) THEN <<results[i]>> ELSE <<>>)
         \o FilterFrom(text, results, i + 1)

filtered_results(text, analyzer_results) == FilterFrom(text, analyzer_results, 1)

\* sorted(filtered_results, key=lambda x: x.start, reverse=True): stable
RECURSIVE InsertDesc(_, _)
InsertDesc(sorted, r) ==
    IF Len(sorted) = 0 THEN <<r>>
    ELSE IF sorted[1].start >= r.start
         THEN <<sorted[1]>> \o InsertDesc(Tail(sorted), r)
         ELSE <<r>> \o sorted

RECURSIVE SortFrom(_, _, _)
SortFrom(results, i, acc) ==
    IF i > Len(results) THEN acc
    ELSE SortFrom(results, i + 1, InsertDesc(acc, results[i]))

sorted_results(filtered) == SortFrom(filtered, 1, <<>>)

\* f"[{entity_type}_{uuid.uuid4().hex[:8]}]": hex is one atom for the 8 characters
Token(entity_type, hex) == <<"[", entity_type, "_", hex, "]">>

\* the replacement loop: [tokens, deidentified_text] after results i..n
RECURSIVE RewriteFrom(_, _, _, _, _, _)
RewriteFrom(text, sorted, hexes, i, tokens, deidentified_text) ==
    IF i > Len(sorted) THEN [tokens |-> tokens, deidentified_text |-> deidentified_text]
    ELSE LET result == sorted[i]
             original_value == Slice(text, result.start, result.end)
             token == Token(result.entity_type, hexes[i])
         IN  RewriteFrom(text, sorted, hexes, i + 1,
                         DictSet(tokens, token, original_value),
                         Slice(deidentified_text, 0, result.start)
                            \o token
                            \o Slice(deidentified_text, result.end, Len(deidentified_text)))

Rewrite(text, filtered, hexes) ==
    RewriteFrom(text, sorted_results(filtered), hexes, 1, <<>>, text)

\* detected_entities of the response: type, offsets, score and matched text
RECURSIVE DetectedFrom(_, _, _)
DetectedFrom(text, filtered, i) ==
    IF i > Len(filtered) THEN <<>>
    ELSE <<[entity_type |-> filtered[i].entity_type, start |-> filtered[i].start,
            end |-> filtered[i].end, score |-> filtered[i].score,
            text |-> Slice(text, filtered[i].start, filtered[i].end)]>>
         \o DetectedFrom(text, filtered, i + 1)

detected_entities(text, filtered) == DetectedFrom(text, filtered, 1)

(***************************************************************************)
(* pii_service.py reidentify and reinsertion_service.py reinsert_pii:      *)
(* the replacement loops, over a dict already fetched.                     *)
(***************************************************************************)
\* for token, original_value in tokens.items(): replace, entries i..n
RECURSIVE ReidentifyFrom(_, _, _)
ReidentifyFrom(reidentified, tokens, i) ==
    IF i > Len(tokens) THEN reidentified
    ELSE ReidentifyFrom(Replace(reidentified, tokens[i][1], tokens[i][2]), tokens, i + 1)

\* "if not tokens: return text" covers None and the empty dict alike
reidentify_with(text, tokens) ==
    IF Len(tokens) = 0 THEN text ELSE ReidentifyFrom(text, tokens, 1)

\* sorted(pii_map.keys(), key=len, reverse=True): stable; len counts characters
LabelLen(atom) == IF atom = "AGE" THEN 3 ELSE IF atom = "PERSON" THEN 6
                  ELSE IF atom \in {"h0", "h1", "h2", "h3"} THEN 8 ELSE 1

RECURSIVE StrLen(_)
StrLen(s) == IF Len(s) = 0 THEN 0 ELSE LabelLen(s[1]) + StrLen(Tail(s))

RECURSIVE InsertByLen(_, _)
InsertByLen(sorted, kv) ==
    IF Len(sorted) = 0 THEN <<kv>>
    ELSE IF StrLen(sorted[1][1]) >= StrLen(kv[1])
         THEN <<sorted[1]>> \o InsertByLen(Tail(sorted), kv)
         ELSE <<kv>> \o sorted

RECURSIVE SortByLenFrom(_, _, _)
SortByLenFrom(pii_map, i, acc) ==
    IF i > Len(pii_map) THEN acc
    ELSE SortByLenFrom(pii_map, i + 1, InsertByLen(acc, pii_map[i]))

sorted_placeholders(pii_map) == SortByLenFrom(pii_map, 1, <<>>)

RECURSIVE ReinsertFrom(_, _, _)
ReinsertFrom(result, sorted, i) ==
    IF i > Len(sorted) THEN result
    ELSE ReinsertFrom(IF Contains(result, sorted[i][1])
                      THEN Replace(result, sorted[i][1], sorted[i][2])
                      ELSE result,
                      sorted, i + 1)

reinsert_pii(text, pii_map) == ReinsertFrom(text, sorted_placeholders(pii_map), 1)


(***************************************************************************)
(* The state.                                                              *)
(***************************************************************************)
VARIABLES
    store,       \* SessionStore._store: session_id -> [tokens, expires_at]
    lock,        \* SessionStore._lock: the thread holding it, or NoThread
    now,         \* datetime.now(), in days
    pc,          \* where each thread stands
    call,        \* the arguments and locals of each thread's current call
    ret,         \* what each thread's last finished request returned or raised
    ncalls,      \* requests each thread has started
    log,         \* the direct session-store calls made so far, with what each
                 \* returned to its caller
    committed,   \* history, read by the properties only: per session, the entries
                 \* that deidentify and update calls have contributed since
                 \* the record was last removed or overwritten by set
    written      \* history, read by the properties only: when the record of a
                 \* session was last written

vars == <<store, lock, now, pc, call, ret, ncalls, log, committed, written>>

Threads == {"t1", "t2"}
Sessions == {"s1", "s2"}
NoThread == "none"
Caller == "caller"       \* the thread of a direct session-store call

\* session_store = SessionStore(expiration_hours=24): 24 hours are 1 day
TTL == 1

HexPool == <<"h0", "h1", "h2", "h3">>
Hexes == {HexPool[i] : i \in 1..NumHex}

(***************************************************************************)
(* A Python reference to a dict.  The dict that a store record holds is    *)
(* shared with whoever got it from get() or handed it to set(); kind "ref" *)
(* is such a reference.  Once the record is replaced or removed nobody     *)
(* mutates that dict any more, and the reference becomes its value.        *)
(***************************************************************************)
NoneRef == [kind |-> "none"]
Val(d) == [kind |-> "val", d |-> d]
Ref(s) == [kind |-> "ref", sid |-> s]

Deref(r) == IF r.kind = "ref" THEN store[r.sid].tokens
            ELSE IF r.kind = "val" THEN r.d ELSE <<>>

\* "if tokens:" of Python: neither None nor an empty dict
Truthy(r) == r.kind # "none" /\ Len(Deref(r)) > 0

DetachRef(r, S) == IF r.kind = "ref" /\ r.sid \in S THEN Val(store[r.sid].tokens) ELSE r

DetachCalls(S) ==
    [t \in Threads |-> [call[t] EXCEPT !.existing_tokens = DetachRef(@, S),
                                       !.tokens = DetachRef(@, S),
                                       !.reid_tokens = DetachRef(@, S)]]

DetachLog(S) ==
    [i \in 1..Len(log) |-> IF log[i].op = "get"
                           THEN [log[i] EXCEPT !.value = DetachRef(@, S)]
                           ELSE log[i]]

\* the direct call just made returns value (its caller keeps it)
Returned(S, op, s, value) ==
    Append(DetachLog(S), [op |-> op, sid |-> s, value |-> value])

Remove(st, S) == [x \in DOMAIN st \ S |-> st[x]]
Put(st, s, rec) == [x \in DOMAIN st \cup {s} |-> IF x = s THEN rec ELSE st[x]]

NoCall == [op |-> "none", session_id |-> "none", text |-> <<>>,
           analyzer_results |-> <<>>, filtered |-> <<>>,
           own |-> <<>>, tokens |-> NoneRef, existing_tokens |-> NoneRef,
           deidentified_text |-> <<>>, provider |-> "none", llm_response |-> <<>>,
           reid_tokens |-> NoneRef, reidentified |-> <<>>, i |-> 0, n |-> 0]

NoRet == [kind |-> "none"]

(***************************************************************************)
(* session_store.py                                                        *)
(***************************************************************************)
\* datetime.now() < session['expires_at']
NotExpired(expires_at) == now < expires_at

\* an expiry without the time to live: what NewExpiry must not be
NewExpiryNoTTL == now

\* datetime.now() + timedelta(hours=self.expiration_hours)
NewExpiry == now + TTL

\* a sweep that spares a record expiring this instant: what SweepExpired must
\* not be
SweepExpiredStrict(expires_at) == now > expires_at

\* now >= data['expires_at'] of cleanup_expired
SweepExpired(expires_at) == now >= expires_at

\* get(): the record is live, is dropped as expired, or is missing
Live(s) == s \in DOMAIN store /\ NotExpired(store[s].expires_at)
Dropped(s) == IF s \in DOMAIN store /\ ~NotExpired(store[s].expires_at) THEN {s} ELSE {}
GetValue(s) == IF Live(s) THEN Ref(s) ELSE NoneRef

\* a direct caller (a thread of its own, outside any request) takes the lock
Callable == lock = NoThread

\* get(session_id)
Get(s) ==
    /\ Callable
    /\ store' = Remove(store, Dropped(s))
    /\ committed' = [x \in Sessions |-> IF x \in Dropped(s) THEN {} ELSE committed[x]]
    /\ call' = DetachCalls(Dropped(s))
    /\ log' = Returned(Dropped(s), "get", s, GetValue(s))
    /\ written' = Remove(written, Dropped(s))
    /\ UNCHANGED <<lock, now, pc, ret, ncalls>>

\* set(session_id, tokens): creates or overwrites the record
Set(s, tokens) ==
    /\ Callable
    /\ store' = Put(store, s, [tokens |-> tokens, expires_at |-> NewExpiry])
    /\ committed' = [committed EXCEPT ![s] = {}]
    /\ call' = DetachCalls({s} \cap DOMAIN store)
    /\ log' = Returned({s} \cap DOMAIN store, "set", s, NoneRef)
    /\ written' = Put(written, s, now)
    /\ UNCHANGED <<lock, now, pc, ret, ncalls>>

\* update(session_id, new_tokens) on a session that has a record: merged in place
UpdateExisting(s, new_tokens) ==
    /\ Callable
    /\ s \in DOMAIN store
    /\ store' = [store EXCEPT ![s] = [tokens |-> DictUpdate(@.tokens, new_tokens),
                                      expires_at |-> NewExpiry]]
    /\ committed' = [committed EXCEPT ![s] = @ \cup Entries(new_tokens)]
    /\ log' = Returned({}, "update", s, NoneRef)
    /\ written' = Put(written, s, now)
    /\ UNCHANGED <<lock, now, pc, call, ret, ncalls>>

\* update(session_id, new_tokens) on a session that has no record: with the lock
\* held it calls self.set, which waits for the same threading.Lock.  The lock is
\* not reentrant: the caller waits for itself, and the lock is never released.
UpdateMissing(s, new_tokens) ==
    /\ Callable
    /\ s \notin DOMAIN store
    /\ lock' = Caller
    /\ log' = Returned({}, "update_waits_in_set", s, NoneRef)
    /\ UNCHANGED <<store, now, pc, call, ret, ncalls, committed, written>>

\* a delete that empties the store: what Delete must not be
DeleteEvery(s) ==
    /\ Callable
    /\ store' = Remove(store, DOMAIN store)
    /\ committed' = [x \in Sessions |-> {}]
    /\ call' = DetachCalls(DOMAIN store)
    /\ log' = Returned(DOMAIN store, "delete", s, s \in DOMAIN store)
    /\ written' = Remove(written, DOMAIN store)
    /\ UNCHANGED <<lock, now, pc, ret, ncalls>>

\* delete(session_id): returns whether a record existed
Delete(s) ==
    /\ Callable
    /\ store' = Remove(store, {s})
    /\ committed' = [committed EXCEPT ![s] = {}]
    /\ call' = DetachCalls({s} \cap DOMAIN store)
    /\ log' = Returned({s} \cap DOMAIN store, "delete", s, s \in DOMAIN store)
    /\ written' = Remove(written, {s})
    /\ UNCHANGED <<lock, now, pc, ret, ncalls>>

\* cleanup_expired(): removes the expired records, returns how many
CleanupExpired ==
    /\ Callable
    /\ LET expired == {sid \in DOMAIN store : SweepExpired(store[sid].expires_at)}
       IN  /\ store' = Remove(store, expired)
           /\ committed' = [x \in Sessions |-> IF x \in expired THEN {} ELSE committed[x]]
           /\ call' = DetachCalls(expired)
           /\ log' = Returned(expired, "cleanup", "none", Cardinality(expired))
           /\ written' = Remove(written, expired)
    /\ UNCHANGED <<lock, now, pc, ret, ncalls>>

\* the clock
Tick ==
    /\ now < MaxNow
    /\ now' = now + 1
    /\ UNCHANGED <<store, lock, pc, call, ret, ncalls, log, committed, written>>


(***************************************************************************)
(* main.py chat, with pii_service.py deidentify / reidentify and           *)
(* llm_service.py get_completion inlined at the points where it calls them.*)
(***************************************************************************)
\* raise HTTPException(status_code=500, ...) of chat's except clause
HTTPException == [kind |-> "HTTPException"]

\* _get_mock_response: a fixed text that names the placeholders [SSN_0], [PHONE_0]
MockResponse == <<"m", "[", "SSN", "_", "0", "]">>

\* chat starts: the session id is resolved, the analyzer returns its results, and
\* deidentify filters them and rewrites the text (all local to the request)
ChatStart(t, s, text, analyzer_results, hexes) ==
    /\ pc[t] = "idle"
    /\ LET filtered == filtered_results(text, analyzer_results)
           rw == Rewrite(text, filtered, hexes)
       IN  call' = [call EXCEPT ![t] =
                       [NoCall EXCEPT !.op = "chat", !.session_id = s, !.text = text,
                                      !.analyzer_results = analyzer_results,
                                      !.filtered = filtered, !.own = rw.tokens,
                                      !.tokens = Val(rw.tokens),
                                      !.deidentified_text = rw.deidentified_text]]
    /\ pc' = [pc EXCEPT ![t] = "deid_get"]
    /\ ret' = [ret EXCEPT ![t] = NoRet]
    /\ ncalls' = [ncalls EXCEPT ![t] = @ + 1]
    /\ UNCHANGED <<store, lock, now, log, committed, written>>

\* the analyzer raises: chat's except clause turns it into the 500 response
ChatDetectFails(t) ==
    /\ pc[t] = "idle"
    /\ ret' = [ret EXCEPT ![t] = HTTPException]
    /\ ncalls' = [ncalls EXCEPT ![t] = @ + 1]
    /\ UNCHANGED <<store, lock, now, pc, call, log, committed, written>>

\* existing_tokens = session_store.get(session_id)
DeidGet(t) ==
    /\ pc[t] = "deid_get" /\ lock = NoThread
    /\ LET s == call[t].session_id
       IN  /\ store' = Remove(store, Dropped(s))
           /\ committed' = [x \in Sessions |-> IF x \in Dropped(s) THEN {} ELSE committed[x]]
           /\ call' = [DetachCalls(Dropped(s)) EXCEPT ![t].existing_tokens = GetValue(s)]
           /\ log' = DetachLog(Dropped(s))
           /\ written' = Remove(written, Dropped(s))
    /\ pc' = [pc EXCEPT ![t] = "deid_merge"]
    /\ UNCHANGED <<lock, now, ret, ncalls>>

\* tokens after "if existing_tokens: tokens.update(existing_tokens)"
MergeExisting(tokens, existing_tokens) == DictUpdate(tokens, existing_tokens)

DeidMerge(t) ==
    /\ pc[t] = "deid_merge"
    /\ call' = [call EXCEPT ![t].tokens =
                   IF Truthy(call[t].existing_tokens)
                   THEN Val(MergeExisting(Deref(@), Deref(call[t].existing_tokens)))
                   ELSE @]
    /\ pc' = [pc EXCEPT ![t] = "deid_set"]
    /\ UNCHANGED <<store, lock, now, ret, ncalls, log, committed, written>>

\* a set that returns with the lock still held by the request: what DeidSet
\* must not be
DeidSetKeepsLock(t) ==
    /\ pc[t] = "deid_set" /\ lock = NoThread
    /\ LET s == call[t].session_id
       IN  /\ store' = Put(store, s, [tokens |-> Deref(call[t].tokens),
                                      expires_at |-> NewExpiry])
           /\ committed' = [committed EXCEPT ![s] = @ \cup Entries(call[t].own)]
           /\ call' = [DetachCalls({s} \cap DOMAIN store) EXCEPT ![t].tokens = Ref(s)]
           /\ log' = DetachLog({s} \cap DOMAIN store)
           /\ written' = Put(written, s, now)
    /\ lock' = t
    /\ pc' = [pc EXCEPT ![t] = "llm"]
    /\ UNCHANGED <<now, ret, ncalls>>

\* session_store.set(session_id, tokens); deidentify returns
DeidSet(t) ==
    /\ pc[t] = "deid_set" /\ lock = NoThread
    /\ LET s == call[t].session_id
       IN  /\ store' = Put(store, s, [tokens |-> Deref(call[t].tokens),
                                      expires_at |-> NewExpiry])
           /\ committed' = [committed EXCEPT ![s] = @ \cup Entries(call[t].own)]
           /\ call' = [DetachCalls({s} \cap DOMAIN store) EXCEPT ![t].tokens = Ref(s)]
           /\ log' = DetachLog({s} \cap DOMAIN store)
           /\ written' = Put(written, s, now)
    /\ pc' = [pc EXCEPT ![t] = "llm"]
    /\ UNCHANGED <<lock, now, ret, ncalls>>

\* what get_completion returns: the provider's text, or the mock response when
\* the service runs without an API key or the provider call fails
Completion(outcome, response) == IF outcome = "ok" THEN response ELSE MockResponse

\* a completion step that undoes the request's deidentify when the provider
\* fails, by dropping the session's record: what GetCompletion must not be
GetCompletionRollsBack(t, outcome, response) ==
    /\ pc[t] = "llm"
    /\ LET failed == IF outcome \in {"exception", "empty"}
                     THEN {call[t].session_id} \cap DOMAIN store ELSE {}
       IN  /\ store' = Remove(store, failed)
           /\ written' = Remove(written, failed)
           /\ log' = DetachLog(failed)
           /\ call' = [DetachCalls(failed) EXCEPT
                          ![t].provider = outcome,
                          ![t].llm_response = Completion(outcome, response)]
    /\ pc' = [pc EXCEPT ![t] = "reid_get"]
    /\ UNCHANGED <<lock, now, ret, ncalls, committed>>

\* llm_response = await llm_service.get_completion(deidentified_prompt, ...)
\* outcome: "mock" (no API key), "ok", "exception" (error or timeout), "empty"
GetCompletion(t, outcome, response) ==
    /\ pc[t] = "llm"
    /\ call' = [call EXCEPT ![t].provider = outcome,
                            ![t].llm_response = Completion(outcome, response)]
    /\ pc' = [pc EXCEPT ![t] = "reid_get"]
    /\ UNCHANGED <<store, lock, now, ret, ncalls, log, committed, written>>

\* reidentify: tokens = session_store.get(session_id)
ReidGet(t) ==
    /\ pc[t] = "reid_get" /\ lock = NoThread
    /\ LET s == call[t].session_id
       IN  /\ store' = Remove(store, Dropped(s))
           /\ committed' = [x \in Sessions |-> IF x \in Dropped(s) THEN {} ELSE committed[x]]
           /\ call' = [DetachCalls(Dropped(s)) EXCEPT ![t].reid_tokens = GetValue(s)]
           /\ log' = DetachLog(Dropped(s))
           /\ written' = Remove(written, Dropped(s))
    /\ pc' = [pc EXCEPT ![t] = "reid_check"]
    /\ UNCHANGED <<lock, now, ret, ncalls>>

\* a reidentify that treats a missing mapping as an error: what ReidCheck
\* must not be
ReidCheckRaises(t) ==
    /\ pc[t] = "reid_check"
    /\ IF Truthy(call[t].reid_tokens)
       THEN /\ call' = [call EXCEPT ![t].reidentified = call[t].llm_response,
                                    ![t].i = 1,
                                    ![t].n = Len(Deref(call[t].reid_tokens))]
            /\ pc' = [pc EXCEPT ![t] = "reid_loop"]
            /\ ret' = ret
       ELSE /\ ret' = [ret EXCEPT ![t] = HTTPException]
            /\ call' = [call EXCEPT ![t] = NoCall]
            /\ pc' = [pc EXCEPT ![t] = "idle"]
    /\ UNCHANGED <<store, lock, now, ncalls, log, committed, written>>

\* "if not tokens: return text", else the iteration over tokens.items() starts
ReidCheck(t) ==
    /\ pc[t] = "reid_check"
    /\ IF Truthy(call[t].reid_tokens)
       THEN /\ call' = [call EXCEPT ![t].reidentified = call[t].llm_response,
                                    ![t].i = 1,
                                    ![t].n = Len(Deref(call[t].reid_tokens))]
            /\ pc' = [pc EXCEPT ![t] = "reid_loop"]
       ELSE /\ call' = [call EXCEPT ![t].reidentified = call[t].llm_response]
            /\ pc' = [pc EXCEPT ![t] = "respond"]
    /\ UNCHANGED <<store, lock, now, ret, ncalls, log, committed, written>>

\* one step of "for token, original_value in tokens.items()": the iterator
\* raises RuntimeError when the dict has changed size since the loop began
ReidLoop(t) ==
    /\ pc[t] = "reid_loop"
    /\ LET tokens == Deref(call[t].reid_tokens)
           i == call[t].i
       IN  IF Len(tokens) # call[t].n
           THEN /\ ret' = [ret EXCEPT ![t] = HTTPException]
                /\ call' = [call EXCEPT ![t] = NoCall]
                /\ pc' = [pc EXCEPT ![t] = "idle"]
           ELSE IF i > Len(tokens)
           THEN /\ pc' = [pc EXCEPT ![t] = "respond"]
                /\ UNCHANGED <<call, ret>>
           ELSE /\ call' = [call EXCEPT
                               ![t].reidentified = Replace(@, tokens[i][1], tokens[i][2]),
                               ![t].i = i + 1]
                /\ UNCHANGED <<pc, ret>>
    /\ UNCHANGED <<store, lock, now, ncalls, log, committed, written>>

\* PromptResponse(...): the bundle chat returns, from the request's locals
PromptResponse(t) ==
    [original_prompt |-> call[t].text,
     deidentified_prompt |-> call[t].deidentified_text,
     llm_response |-> call[t].llm_response,
     reidentified_response |-> call[t].reidentified,
     detected_entities |-> detected_entities(call[t].text, call[t].filtered),
     tokens_used |-> Deref(call[t].tokens),
     session_id |-> call[t].session_id]

\* return PromptResponse(...): the request ends, ret keeps that it succeeded
\* (the bundle itself is PromptResponse(t) in the state before this step)
Respond(t) ==
    /\ pc[t] = "respond"
    /\ ret' = [ret EXCEPT ![t] = [kind |-> "response"]]
    /\ call' = [call EXCEPT ![t] = NoCall]
    /\ pc' = [pc EXCEPT ![t] = "idle"]
    /\ UNCHANGED <<store, lock, now, ncalls, log, committed, written>>

(***************************************************************************)
(* The inputs the specifications draw from.                                *)
(***************************************************************************)
Result(entity_type, start, end) ==
    [entity_type |-> entity_type, start |-> start, end |-> end, score |-> 7]

\* requests: a prompt and what the analyzer finds in it
PromptA == [text |-> <<"a">>, results |-> <<Result("PERSON", 0, 1)>>]
PromptB == [text |-> <<"b">>, results |-> <<Result("PERSON", 0, 1)>>]
PromptC == [text |-> <<"c">>, results |-> <<>>]

\* the dicts handed to set() and update() by direct callers
MappingZ == << <<Token("PERSON", "h0"), <<"z">>>> >>
MappingY == << <<Token("AGE", "h1"), <<"9", "5">>>>, <<Token("PERSON", "h0"), <<"y">>>> >>
Mappings == {MappingZ, MappingY}

\* the provider's answers to a sanitized prompt: an echo of it, or a plain text
Responses(deidentified_text) == {deidentified_text, <<"k">>}

Outcomes == {"mock", "ok", "exception", "empty"}

Init ==
    /\ store = <<>>
    /\ lock = NoThread
    /\ now = 0
    /\ pc = [t \in Threads |-> "idle"]
    /\ call = [t \in Threads |-> NoCall]
    /\ ret = [t \in Threads |-> NoRet]
    /\ ncalls = [t \in Threads |-> 0]
    /\ log = <<>>
    /\ committed = [s \in Sessions |-> {}]
    /\ written = <<>>

\* the steps of a request under way, but for the completion call
Pipeline(t) ==
    \/ DeidGet(t)
    \/ DeidMerge(t)
    \/ DeidSet(t)
    \/ ReidGet(t)
    \/ ReidCheck(t)
    \/ ReidLoop(t)
    \/ Respond(t)

\* a direct call of the session store, with one of the given dicts
StoreCall(mappings) ==
    \/ \E s \in Sessions : Get(s)
    \/ \E s \in Sessions, m \in mappings : Set(s, m)
    \/ \E s \in Sessions, m \in mappings : UpdateExisting(s, m)
    \/ \E s \in Sessions, m \in mappings : UpdateMissing(s, m)
    \/ \E s \in Sessions : Delete(s)
    \/ CleanupExpired

(***************************************************************************)
(* The concurrent specification: two threads serve one chat request each,  *)
(* a direct caller uses the session store, and the clock advances.         *)
(***************************************************************************)
Next ==
    \/ \E t \in Threads, s \in Sessions :
          \E hexes \in [1..Len(PromptA.results) -> Hexes] :
             ncalls[t] < MaxCalls /\ ChatStart(t, s, PromptA.text, PromptA.results, hexes)
    \/ \E t \in Threads : Pipeline(t)
    \/ \E t \in Threads : GetCompletion(t, "ok", call[t].deidentified_text)
    \/ Len(log) < MaxApi /\ StoreCall({MappingZ})
    \/ Tick

Spec == Init /\ [][Next]_vars

(***************************************************************************)
(* The sequential specification: one thread serves MaxSeq chat requests    *)
(* one after the other, with every outcome of the detector and of the      *)
(* completion provider, while the clock advances.                          *)
(***************************************************************************)
NextSeq ==
    \/ \E s \in Sessions, p \in {PromptA, PromptB, PromptC} :
          \E hexes \in [1..Len(p.results) -> Hexes] :
             ncalls["t1"] < MaxSeq /\ ChatStart("t1", s, p.text, p.results, hexes)
    \/ ncalls["t1"] < MaxSeq /\ ChatDetectFails("t1")
    \/ Pipeline("t1")
    \/ \E outcome \in Outcomes : \E response \in Responses(call["t1"].deidentified_text) :
          GetCompletion("t1", outcome, response)
    \/ Tick

SpecSeq == Init /\ [][NextSeq]_vars

(***************************************************************************)
(* The session-store specification: SessionStore on its own, under any     *)
(* sequence of up to MaxVault calls and the clock.  Every method runs      *)
(* under the one lock, so calls from any number of threads are a sequence. *)
(***************************************************************************)
NextVault ==
    \/ Len(log) < MaxVault /\ \E s \in Sessions : Get(s)
    \/ Len(log) < MaxVault /\ \E s \in Sessions, m \in Mappings : Set(s, m)
    \/ Len(log) < MaxVault /\ \E s \in Sessions, m \in Mappings : UpdateExisting(s, m)
    \/ Len(log) < MaxVault /\ \E s \in Sessions, m \in Mappings : UpdateMissing(s, m)
    \/ Len(log) < MaxVault /\ \E s \in Sessions : Delete(s)
    \/ Len(log) < MaxVault /\ CleanupExpired
    \/ Tick

SpecVault == Init /\ [][NextVault]_vars

(***************************************************************************)
(* The tokenizer specification: one chat request over every prompt of up   *)
(* to MaxLen atoms and every list of up to MaxSpans non-overlapping        *)
(* analyzer results, answered by a provider that echoes the prompt.        *)
(***************************************************************************)
\* the atoms of a prompt: the words "a" and "age", each with the blank before
\* it, and digits; adjacent digits form one number
Alphabet == {"a", "age", "8", "9", "0"}

RECURSIVE Strings(_, _)
Strings(alphabet, n) ==
    IF n = 0 THEN {<<>>}
    ELSE LET shorter == Strings(alphabet, n - 1)
         IN  shorter \cup {Append(u, c) : u \in {v \in shorter : Len(v) = n - 1}, c \in alphabet}

\* the AGE recognizer (age_pattern_1): the keyword, then a run of two or three
\* digits that ends at a word boundary; the result spans the whole match
AgeMatch(text, start, end) ==
    /\ text[start + 1] = "age"
    /\ end - start \in {3, 4}
    /\ \A i \in (start + 2)..end : IsDigit(text[i])
    /\ end < Len(text) => ~IsDigit(text[end + 1])

\* one result: a PERSON over a run of words, an AGE where the recognizer matches
ResultsAt(text) ==
    {r \in [entity_type : {"PERSON", "AGE"}, start : 0..(Len(text) - 1),
            end : 1..Len(text), score : {7}] :
        /\ r.start < r.end
        /\ r.entity_type = "PERSON" => \A i \in (r.start + 1)..r.end : text[i] = "a"
        /\ r.entity_type = "AGE" => AgeMatch(text, r.start, r.end)}

\* the lists of up to n results, in text order, no two overlapping
RECURSIVE ResultLists(_, _)
ResultLists(text, n) ==
    IF n = 0 THEN {<<>>}
    ELSE LET shorter == ResultLists(text, n - 1)
         IN  shorter \cup
             UNION {{Append(l, r) : r \in {x \in ResultsAt(text) :
                                             \A j \in 1..(n - 1) : l[j].end <= x.start}} :
                    l \in {v \in shorter : Len(v) = n - 1}}

NextTok ==
    \/ /\ ncalls["t1"] = 0
       /\ \E text \in Strings(Alphabet, MaxLen) : \E results \in ResultLists(text, MaxSpans) :
             \E hexes \in [1..Len(results) -> Hexes] :
                ChatStart("t1", "s1", text, results, hexes)
    \/ Pipeline("t1")
    \/ GetCompletion("t1", "ok", call["t1"].deidentified_text)

SpecTok == Init /\ [][NextTok]_vars

(***************************************************************************)
(* The detokenizer specification: a session is given a dict by set(), a    *)
(* chat request without PII follows, and the provider answers with any     *)
(* text assembled from up to MaxFrags fragments: plain atoms, placeholders *)
(* and pieces of a placeholder.                                            *)
(***************************************************************************)
KeyP == Token("PERSON", "h0")
KeyA == Token("AGE", "h1")

\* original values: plain ones, a piece of a placeholder, a whole placeholder
DetokValues == {<<"x">>, <<"h0">>, <<"[", "PERSON", "_">>, <<"h0", "]">>, KeyA}

DetokMappings ==
    {<< <<k, v>> >> : k \in {KeyP, KeyA}, v \in DetokValues}
    \cup {<< <<KeyP, v>>, <<KeyA, w>> >> : v \in DetokValues, w \in DetokValues}
    \cup {<< <<KeyA, w>>, <<KeyP, v>> >> : v \in DetokValues, w \in DetokValues}

Fragments ==
    {SubSeq(KeyP, 1, i) : i \in 1..Len(KeyP)}
    \cup {SubSeq(KeyP, i, Len(KeyP)) : i \in 1..Len(KeyP)}
    \cup {KeyA, <<"x">>}

RECURSIVE Concats(_, _)
Concats(fragments, n) ==
    IF n = 0 THEN {<<>>}
    ELSE LET shorter == Concats(fragments, n - 1)
         IN  shorter \cup {u \o f : u \in shorter, f \in fragments}

NextDetok ==
    \/ Len(log) = 0 /\ \E m \in DetokMappings : Set("s1", m)
    \/ /\ ncalls["t1"] = 0 /\ Len(log) = 1
       /\ ChatStart("t1", "s1", PromptC.text, PromptC.results, <<>>)
    \/ Pipeline("t1")
    \/ /\ pc["t1"] = "llm"
       /\ \E response \in Concats(Fragments, MaxFrags) : GetCompletion("t1", "ok", response)

SpecDetok == Init /\ [][NextDetok]_vars


(***************************************************************************)
(* The merge specification: one thread serves chat requests one after the  *)
(* other, and between requests a direct caller merges a dict into a        *)
(* session's record with update().                                         *)
(***************************************************************************)
NextMerge ==
    \/ \E s \in Sessions, p \in {PromptA, PromptB} :
          \E hexes \in [1..Len(p.results) -> Hexes] :
             ncalls["t1"] < MaxSeq /\ ChatStart("t1", s, p.text, p.results, hexes)
    \/ Pipeline("t1")
    \/ GetCompletion("t1", "ok", call["t1"].deidentified_text)
    \/ /\ pc["t1"] = "idle" /\ Len(log) < MaxApi
       /\ \E s \in Sessions, m \in Mappings : UpdateExisting(s, m)
    \/ Tick

SpecMerge == Init /\ [][NextMerge]_vars

(***************************************************************************)
(* The lifetime specification: one thread serves a chat request, with      *)
(* every outcome of the completion provider, while the clock advances and  *)
(* a direct caller deletes a session at any point of the request.          *)
(***************************************************************************)
NextLifetime ==
    \/ \E s \in Sessions, p \in {PromptA, PromptC} :
          \E hexes \in [1..Len(p.results) -> Hexes] :
             ncalls["t1"] < MaxCalls /\ ChatStart("t1", s, p.text, p.results, hexes)
    \/ Pipeline("t1")
    \/ \E outcome \in Outcomes : GetCompletion("t1", outcome, call["t1"].deidentified_text)
    \/ Len(log) < MaxApi /\ \E s \in Sessions : Delete(s)
    \/ Tick

SpecLifetime == Init /\ [][NextLifetime]_vars

(***************************************************************************)
(* The two-request specification: two threads serve chat requests of one   *)
(* session at the same time, and nothing else uses the session store.      *)
(***************************************************************************)
NextPair ==
    \/ \E t \in Threads, p \in {PromptA, PromptB} :
          \E hexes \in [1..Len(p.results) -> Hexes] :
             ncalls[t] < MaxCalls /\ ChatStart(t, "s1", p.text, p.results, hexes)
    \/ \E t \in Threads : Pipeline(t)
    \/ \E t \in Threads : GetCompletion(t, "ok", call[t].deidentified_text)

SpecPair == Init /\ [][NextPair]_vars

\* Two sessions side by side: each thread serves one session with a prompt of
\* its own, and the direct calls give each session a mapping of its own, so
\* that every original value names the session it was given to.
SessionOf(t) == IF t = "t1" THEN "s1" ELSE "s2"
PromptOf(s) == IF s = "s1" THEN PromptA ELSE PromptB
MappingOf(s) == IF s = "s1" THEN MappingZ ELSE MappingY

\* the requests and direct calls made so far
IsoCalls == Len(log) + ncalls["t1"] + ncalls["t2"]

NextIso ==
    \/ \E t \in Threads :
          \E hexes \in [1..Len(PromptOf(SessionOf(t)).results) -> Hexes] :
             /\ ncalls[t] < MaxCalls /\ IsoCalls < MaxSeq
             /\ ChatStart(t, SessionOf(t), PromptOf(SessionOf(t)).text,
                          PromptOf(SessionOf(t)).results, hexes)
    \/ \E t \in Threads : Pipeline(t)
    \/ \E t \in Threads : GetCompletion(t, "ok", call[t].deidentified_text)
    \/ Len(log) < MaxApi /\ IsoCalls < MaxSeq /\ \E s \in Sessions : Get(s)
    \/ Len(log) < MaxApi /\ IsoCalls < MaxSeq /\ \E s \in Sessions : Set(s, MappingOf(s))
    \/ Len(log) < MaxApi /\ IsoCalls < MaxSeq /\ \E s \in Sessions : UpdateExisting(s, MappingOf(s))
    \/ Len(log) < MaxApi /\ IsoCalls < MaxSeq /\ \E s \in Sessions : Delete(s)

SpecIso == Init /\ [][NextIso]_vars

(***************************************************************************)
(* The properties.                                                         *)
(***************************************************************************)
\* no request is under way and no direct call is waiting
AllReturned == (\A t \in Threads : pc[t] = "idle") /\ lock = NoThread

\* no two of the entries have the same placeholder key with different values
NoCollision(entries) ==
    \A e1 \in entries, e2 \in entries : e1[1] = e2[1] => e1 = e2

\* C1: once all concurrent tokenize and merge calls on a session have returned,
\* and no two of them generated the same placeholder key, the session's mapping
\* holds every entry that any of the calls contributed: no update is lost.
C1_NoLostUpdate ==
    \A s \in Sessions :
        (AllReturned /\ committed[s] # {})
            => /\ s \in DOMAIN store
               /\ NoCollision(committed[s] \cup Entries(store[s].tokens))
                     => committed[s] \subseteq Entries(store[s].tokens)

\* C3: update on a session without a record behaves like set: the call returns,
\* and the store then holds the record with the new mapping, expiring TTL from now.
C3_MergeOnMissingIsSet ==
    [][\A s \in Sessions, m \in Mappings :
          UpdateMissing(s, m)
              => /\ lock' = NoThread
                 /\ s \in DOMAIN store'
                 /\ store'[s] = [tokens |-> m, expires_at |-> now + TTL]]_vars


\* C2: when deidentify has turned a text into a sanitized text for a session,
\* reidentifying the sanitized text with the session's mapping gives back
\* exactly the original text.
C2_RoundTrip ==
    \A t \in Threads :
        pc[t] = "llm"
            => reidentify_with(call[t].deidentified_text,
                               store[call[t].session_id].tokens) = call[t].text

\* C5: deidentify with nothing to redact returns the text unchanged and leaves
\* the store as it was: no record is created, none is rewritten or refreshed.
C5_NoSpansNoMutation ==
    [][\A t \in Threads :
          (call[t].filtered = <<>> /\ DeidSet(t))
              => /\ call[t].deidentified_text = call[t].text
                 /\ store' = store]_vars

\* C6: when the completion provider raises, times out or answers with an empty
\* text, the request fails: it never reaches the point of returning a response.
C6_ProviderFailureFailsRequest ==
    \A t \in Threads :
        call[t].provider \in {"exception", "empty"} => pc[t] # "respond"

\* C8: the placeholder keys generated in one deidentify call are pairwise
\* distinct and distinct from every key already in the session's mapping.
C8_FreshPlaceholders ==
    \A t \in Threads :
        pc[t] = "deid_merge"
            => /\ Cardinality(Keys(call[t].own)) = Len(call[t].filtered)
               /\ Keys(call[t].own) \cap Keys(Deref(call[t].existing_tokens)) = {}

\* C9: when deidentify returns, the session's mapping holds the entries of this
\* call and of the earlier calls on the unexpired session, and the mapping the
\* call returns is that full mapping.
C9_MergeAccumulates ==
    \A t \in Threads :
        pc[t] = "llm"
            => LET s == call[t].session_id
               IN  /\ committed[s] \subseteq Entries(store[s].tokens)
                   /\ PromptResponse(t).tokens_used = store[s].tokens


Last(seq) == seq[Len(seq)]

\* C4: a get before the time to live has passed since the record was last
\* written returns its mapping; a get after that returns nothing and removes the
\* record, so that a delete which finds no record returns false.
C4_Expiry ==
    [][\A s \in Sessions :
          /\ (s \in DOMAIN store /\ now < written[s] + TTL /\ Get(s))
                => /\ Last(log').value = Ref(s)
                   /\ store' = store
          /\ (s \in DOMAIN store /\ now > written[s] + TTL /\ Get(s))
                => /\ Last(log').value = NoneRef
                   /\ s \notin DOMAIN store'
          /\ (s \notin DOMAIN store /\ Delete(s))
                => Last(log').value = FALSE]_vars

\* a record was set, a get found it expired, and the delete after it found nothing
C4_Witness ==
    \E s \in Sessions :
        /\ Len(log) = 3
        /\ log[1].op = "set" /\ log[1].sid = s
        /\ log[2] = [op |-> "get", sid |-> s, value |-> NoneRef]
        /\ log[3] = [op |-> "delete", sid |-> s, value |-> FALSE]
        /\ now > TTL

Range(seq) == {seq[i] : i \in 1..Len(seq)}

\* the number an AGE span states: the decimal value of its digits
NumericValue(span_text) == ParseInt(SelectSeq(span_text, IsDigit))

\* the span stays in the text: it is an age of at most 89
KeptAge(text, r) ==
    /\ r.entity_type = "AGE"
    /\ NumericValue(Slice(text, r.start, r.end)) <= 89

\* the span is among those deidentify replaces and reports
Redacted(t, r) ==
    /\ r \in Range(call[t].filtered)
    /\ \E e \in Range(PromptResponse(t).detected_entities) :
          /\ e.entity_type = r.entity_type /\ e.start = r.start /\ e.end = r.end
          /\ e.text = Slice(call[t].text, r.start, r.end)

\* C7: of the spans the analyzer finds, deidentify leaves an AGE span whose
\* number is at most 89 in the text, and redacts every other span: an AGE of
\* 90 or more, an AGE whose number is not a plausible age, and every span of
\* another type.
C7_RedactionFilter ==
    \A t \in Threads :
        call[t].op = "chat"
            => \A r \in Range(call[t].analyzer_results) :
                  Redacted(t, r) <=> ~KeptAge(call[t].text, r)

\* an age of 89 is kept while the name next to it is redacted
C7_Witness ==
    /\ pc["t1"] = "llm"
    /\ call["t1"].text = <<"age", "8", "9", "a">>
    /\ call["t1"].analyzer_results = <<Result("AGE", 0, 3), Result("PERSON", 3, 4)>>
    /\ call["t1"].filtered = <<Result("PERSON", 3, 4)>>
    /\ SubSeq(call["t1"].deidentified_text, 1, 3) = <<"age", "8", "9">>


\* a placeholder-shaped substring: "[", a label, "_", a hex suffix, "]"
PlaceholderShapedAt(s, i) ==
    /\ i >= 1 /\ i + 4 <= Len(s)
    /\ s[i] = "[" /\ s[i + 1] \in {"PERSON", "AGE"} /\ s[i + 2] = "_"
    /\ s[i + 3] \in Range(HexPool) /\ s[i + 4] = "]"

HasPlaceholderShape(s) == \E i \in 1..Len(s) : PlaceholderShapedAt(s, i)

BracketFree(s) == \A i \in 1..Len(s) : s[i] \notin {"[", "]"}

\* every bracket of s belongs to a complete placeholder-shaped substring
WellBracketed(s) ==
    \A i \in 1..Len(s) :
        /\ s[i] = "[" => PlaceholderShapedAt(s, i)
        /\ s[i] = "]" => PlaceholderShapedAt(s, i - 4)

\* the request's reidentified text is a fixed point of reidentify, and
\* reinsert_pii of the same response is a fixed point of reinsert_pii
Idempotent(t) ==
    LET m == Deref(call[t].reid_tokens)
        once == reinsert_pii(call[t].llm_response, m)
    IN  /\ reidentify_with(call[t].reidentified, m) = call[t].reidentified
        /\ reinsert_pii(once, m) = once

\* C10 as stated: when no original value of the mapping contains a
\* placeholder-shaped substring, detokenizing a second time with the same
\* mapping changes nothing.
C10_Idempotent ==
    \A t \in Threads :
        (/\ pc[t] = "respond"
         /\ \A e \in Entries(Deref(call[t].reid_tokens)) : ~HasPlaceholderShape(e[2]))
            => Idempotent(t)

\* C10: when no original value of the mapping contains a bracket, and every
\* bracket of the text belongs to a complete placeholder-shaped substring,
\* detokenizing a second time with the same mapping changes nothing.
C10_IdempotentWellBracketed ==
    \A t \in Threads :
        (/\ pc[t] = "respond"
         /\ \A e \in Entries(Deref(call[t].reid_tokens)) : BracketFree(e[2])
         /\ WellBracketed(call[t].llm_response))
            => Idempotent(t)

\* a response with two placeholders of the mapping, one of them twice, has
\* been reidentified
C10_Witness ==
    /\ pc["t1"] = "respond"
    /\ Deref(call["t1"].reid_tokens) = << <<KeyP, <<"x">>>>, <<KeyA, <<"h0">>>> >>
    /\ call["t1"].llm_response = KeyP \o KeyA \o KeyP
    /\ call["t1"].reidentified = <<"x", "h0", "x">>

\* the union of two mappings in which the new value wins on a common key
MergedEntries(existing, new) ==
    Entries(new) \cup {e \in Entries(existing) : ~HasKey(new, e[1])}

\* C11: a merge into a session that has a record leaves the union of the
\* existing mapping and the new one, the new value winning on every common key,
\* and sets expires_at to now + TTL; so for update, and so for the set by which
\* deidentify commits the entries it generated.
C11_MergeUnionNewWins ==
    [][/\ \A s \in Sessions, m \in Mappings :
             UpdateExisting(s, m)
                => /\ Entries(store'[s].tokens) = MergedEntries(store[s].tokens, m)
                   /\ store'[s].expires_at = now + TTL
       /\ \A t \in Threads :
             (Live(call[t].session_id) /\ DeidSet(t))
                => LET s == call[t].session_id
                   IN  /\ Entries(store'[s].tokens)
                            = MergedEntries(store[s].tokens, call[t].own)
                       /\ store'[s].expires_at = now + TTL]_vars

\* C12: cleanup_expired removes exactly the records with expires_at <= now,
\* returns how many it removed, and leaves every other record, its mapping and
\* its expires_at, unchanged.
C12_SweepExpired ==
    [][CleanupExpired
          => LET expired == {s \in DOMAIN store : store[s].expires_at <= now}
             IN  /\ DOMAIN store' = DOMAIN store \ expired
                 /\ Last(log').value = Cardinality(expired)
                 /\ \A s \in DOMAIN store' : store'[s] = store[s]]_vars

\* a sweep at the instant one record expires removed it and kept the other
C12_Witness ==
    /\ Len(log) = 3
    /\ log[1].op = "set" /\ log[1].sid = "s1"
    /\ log[2].op = "set" /\ log[2].sid = "s2"
    /\ log[3] = [op |-> "cleanup", sid |-> "none", value |-> 1]
    /\ now = TTL
    /\ DOMAIN store = {"s2"} /\ store["s2"].expires_at > now

\* C13: a request that finds no mapping for its session when it comes to
\* reidentify, or an empty one, because the record has expired or was deleted
\* since deidentify stored it, is not failed: its next step leaves it about to
\* return a response whose reidentified text is the completion as it came.
C13_MissingSessionNotAnError ==
    [][\A t \in Threads :
          (/\ pc[t] = "reid_check"
           /\ ~Truthy(call[t].reid_tokens)
           /\ pc'[t] # pc[t])
              => /\ pc'[t] = "respond"
                 /\ call'[t].reidentified = call[t].llm_response
                 /\ ret'[t] = ret[t]]_vars

\* the record a request stored was deleted before the request fetched it, and
\* the request is about to return the completion with its placeholder
C13_Witness ==
    \E t \in Threads :
        /\ pc[t] = "respond"
        /\ now = 0
        /\ log = <<[op |-> "delete", sid |-> call[t].session_id, value |-> TRUE]>>
        /\ call[t].reid_tokens = NoneRef
        /\ Len(call[t].own) = 1
        /\ call[t].llm_response = call[t].own[1][1]
        /\ PromptResponse(t).reidentified_response = call[t].llm_response

\* C14: a failure of the completion provider does not undo what deidentify
\* stored: when a request whose provider call failed ends, the session's record
\* still holds every entry the request generated, unless the record has been
\* removed since by expiry or by delete.
C14_NoRollback ==
    [][\A t \in Threads :
          (/\ call[t].provider \in {"exception", "empty"}
           /\ pc[t] # "idle" /\ pc'[t] = "idle")
              => LET s == call[t].session_id
                 IN  \A e \in Entries(call[t].own) :
                        e \in committed'[s]
                           => /\ s \in DOMAIN store'
                              /\ e \in Entries(store'[s].tokens)]_vars

\* the provider call of a request has failed, the request is about to return,
\* and the entry it generated is in the session's record
C14_Witness ==
    \E t \in Threads :
        /\ pc[t] = "respond"
        /\ call[t].provider = "exception"
        /\ Len(call[t].own) = 1
        /\ call[t].session_id \in DOMAIN store
        /\ Entries(call[t].own) \subseteq Entries(store[call[t].session_id].tokens)

\* the text with each span, taken in text order, replaced by its placeholder
RECURSIVE RebuildFrom(_, _, _, _, _)
RebuildFrom(text, spans, placeholder, i, pos) ==
    IF i > Len(spans) THEN Slice(text, pos, Len(text))
    ELSE Slice(text, pos, spans[i].start) \o placeholder[i]
            \o RebuildFrom(text, spans, placeholder, i + 1, spans[i].end)

\* the value a dict holds for a key it has
Lookup(d, k) == d[CHOOSE i \in 1..Len(d) : d[i][1] = k][2]

\* C15: the sanitized text is the original text with the range of each accepted
\* span replaced by that span's placeholder and every other character kept in
\* order, and in the mapping deidentify generated each span's placeholder maps
\* to exactly the text of the span.
C15_OffsetSafeRewrite ==
    \A t \in Threads :
        pc[t] = "deid_get"
            => LET text == call[t].text
                   spans == call[t].filtered
                   own == call[t].own
               IN  \E placeholder \in [1..Len(spans) -> Keys(own)] :
                      /\ call[t].deidentified_text
                            = RebuildFrom(text, spans, placeholder, 1, 0)
                      /\ \A i \in 1..Len(spans) :
                            /\ placeholder[i][2] = spans[i].entity_type
                            /\ Lookup(own, placeholder[i])
                                  = Slice(text, spans[i].start, spans[i].end)

\* the phase of a request: 0 before the analyzer has run, 1 deidentify's
\* rewrite and merge, 2 the completion call, 3 the fetch of the mapping,
\* 4 the replacement of the placeholders, 5 the response
Phase(p) ==
    CASE p = "idle" -> 0
      [] p \in {"deid_get", "deid_merge", "deid_set"} -> 1
      [] p = "llm" -> 2
      [] p = "reid_get" -> 3
      [] p \in {"reid_check", "reid_loop"} -> 4
      [] p = "respond" -> 5

\* the steps of a request that take the store's lock
VaultSteps == {"deid_get", "deid_set", "reid_get"}

\* C16: a request goes through analysis, rewrite and merge, completion call,
\* fetch of the mapping and replacement in that order; while its analyzer call
\* or its completion call is pending it does not hold the store's lock, and a
\* store operation of another request can go ahead.
C16_OrderAndLock ==
    /\ [](\A t \in Threads :
             pc[t] \in {"idle", "llm"}
                => /\ lock # t
                   /\ \A u \in Threads \ {t} :
                         pc[u] \in VaultSteps => ENABLED Pipeline(u))
    /\ [][\A t \in Threads :
             \/ Phase(pc'[t]) \in {Phase(pc[t]), Phase(pc[t]) + 1}
             \/ Phase(pc[t]) >= 4 /\ pc'[t] = "idle"]_vars

\* while one request waits for its completion, the other has fetched the
\* mapping, merged and stored its own entry, and waits for its completion too
C16_Witness ==
    /\ pc["t1"] = "llm" /\ pc["t2"] = "llm"
    /\ "s1" \in DOMAIN store
    /\ Len(store["s1"].tokens) = 2
    /\ Entries(store["s1"].tokens) = Entries(call["t1"].own) \cup Entries(call["t2"].own)

\* C17: the text a request returns is the completion with the placeholders of
\* the session's mapping replaced longest key first, as reinsert_pii of
\* reinsertion_service.py replaces them.
C17_LongerFirst ==
    \A t \in Threads :
        pc[t] = "respond"
           => call[t].reidentified
                 = reinsert_pii(call[t].llm_response, Deref(call[t].reid_tokens))

\* the record of s has reached its expiry and has not been removed yet
Stale(s) == s \in DOMAIN store /\ store[s].expires_at <= now

\* C18: the entries of a record whose expiry has passed are not returned
\* again: a get of it returns nothing, and after a set or an update of it the
\* record holds (and a later get returns) only the entries that call wrote.
C18_NoResurrection ==
    [][\A s \in Sessions :
          Stale(s)
             => /\ Get(s) => (Last(log').value = NoneRef /\ s \notin DOMAIN store')
                /\ \A m \in Mappings :
                      (Set(s, m) \/ UpdateExisting(s, m))
                         => Entries(store'[s].tokens) \subseteq Entries(m)]_vars

\* the original values given to session s by its requests and its direct calls
InputValues(s) ==
    {Slice(PromptOf(s).text, PromptOf(s).results[i].start, PromptOf(s).results[i].end) :
        i \in 1..Len(PromptOf(s).results)}
    \cup {e[2] : e \in Entries(MappingOf(s))}

\* the record of session b, or its absence, is the same after the step
RecordUnchanged(b) ==
    /\ (b \in DOMAIN store') = (b \in DOMAIN store)
    /\ b \in DOMAIN store => store'[b] = store[b]

Holding == {"reid_check", "reid_loop", "respond"}

\* C20: the mapping a get has returned keeps its contents whatever is done to
\* the store afterwards, both for a request that holds it while replacing the
\* placeholders and for a direct caller of get.
C20_StableSnapshot ==
    [][/\ \A t \in Threads :
             (pc[t] \in Holding /\ pc'[t] \in Holding)
                => Deref(call[t].reid_tokens)' = Deref(call[t].reid_tokens)
       /\ \A i \in 1..Len(log) :
             log[i].op = "get" => Deref(log[i].value)' = Deref(log[i].value)]_vars

====
